---- MODULE Spec2Model ----
(***************************************************************************)
(* teeproxy: a reverse proxy that forwards every inbound request to the    *)
(* production target and replays a duplicate against the alternative       *)
(* (shadow) target from a background goroutine, retrying on 5xx.           *)
(*                                                                         *)
(* Strings are sequences of one-character strings (<<"/", "f">> is "/f").  *)
(* One inbound request is followed from teeDirector to the response the    *)
(* client receives, together with the goroutine teeDirector starts.        *)
(* A body reader is a cell of the heap `readers`: the bytes it was made    *)
(* over and the offset of the next unread byte; one Read takes one byte.   *)
(* "inbound" is the reader req.Body holds when teeDirector starts the      *)
(* goroutine, "primary" the one duplicateRequest puts in its place and     *)
(* "shadow" the one clientCall gives req2 before each round trip.          *)
(* clientCall and the proxy share req without synchronisation: every read  *)
(* and write of req.Body, req.URL.Path and req.URL.RawQuery is a step of   *)
(* its own, and the steps of the two goroutines interleave freely.         *)
(***************************************************************************)
EXTENDS Integers, Sequences, FiniteSets, TLC

VARIABLES
    hosts,          \* var hosts Hosts: Target and Alternative base URLs
    retryCount,     \* *retryCount, the -rc flag
    inbound,        \* the inbound request as the server received it
    id,             \* the correlation id teeDirector draws
    req,            \* the *http.Request teeDirector gets: URL fields and Body (a reader)
    readers,        \* heap of body readers: name -> [data, off]
    headers,        \* heap of header sets (http.Header): name -> map from key to values
    prPc,           \* position of the serving goroutine (teeDirector, then the proxy)
    prReader,       \* the reader the proxy's transport took from req.Body
    targetRecv,     \* what the target backend has received: URL and body bytes
    targetAnswer,   \* what the target backend answered
    clientResp,     \* what was written to the client
    shPc,           \* position of the goroutine running clientCall
    shReader,       \* the reader io.Copy took from request.Body
    b1, b2,         \* duplicateRequest's two buffers
    req2,           \* the duplicated request: URL fields and Body (a reader or nil)
    bodyBytes,      \* b1.Bytes() as returned to clientCall
    retry,          \* clientCall's loop counter
    resp,           \* the response of the current shadow round trip
    altRecv,        \* the requests the alternative backend has received, in order
    altAnswers,     \* the outcomes of the shadow round trips, in order
    log,            \* the lines logMessage has printed
    panicked,       \* a runtime fault was raised in clientCall
    crashed,        \* the process died of an unrecovered panic
    ttPc,           \* position of a caller of the timer-raced TimeoutTransport.RoundTrip
    ttWorker,       \* position of the goroutine that RoundTrip starts
    ttTimer,        \* the time.After timer: "unset", "armed" or "fired"
    ttUnderlying,   \* what t.Transport.RoundTrip returned to that goroutine
    ttResp,         \* the contents of the channel resp
    ttCancelled,    \* t.Transport.CancelRequest(req) was called
    ttResult        \* what RoundTrip returned to its caller

ttVars == <<ttPc, ttWorker, ttTimer, ttUnderlying, ttResp, ttCancelled, ttResult>>

vars == <<hosts, retryCount, inbound, id, req, readers, headers, prPc, prReader,
          targetRecv, targetAnswer, clientResp, shPc, shReader, b1, b2, req2,
          bodyBytes, retry, resp, altRecv, altAnswers, log, panicked, crashed,
          ttVars>>

prVars == <<prPc, prReader, targetRecv, targetAnswer, clientResp>>
shVars == <<shPc, shReader, b1, b2, req2, bodyBytes, retry, resp, altRecv, altAnswers,
           panicked>>
cfgVars == <<hosts, retryCount, inbound>>

(***************************************************************************)
(* Bounds of the model.                                                    *)
(***************************************************************************)
MaxBodyLen == 2
MaxRetryCount == 3
MaxPathLen == 3
MaxQueryLen == 2

\* the inbound bodies: the prefixes of one text, every byte of it different
BodyText == <<"a", "b", "c", "d", "e">>
Bodies == {SubSeq(BodyText, 1, n) : n \in 0..MaxBodyLen}
ReqPaths == {<<"/", "f">>}
ReqQueries == {<<>>, <<"x">>}
Ids == {"id1"}
Nil == "nil"
NoURL == [Scheme |-> "", Host |-> "", Path |-> <<>>, RawQuery |-> <<>>]

\* response statuses the backends answer with, around the 5xx range
Statuses == {200, 499, 500, 599, 600}
NetErr == [err |-> TRUE, StatusCode |-> 0]
Response(s) == [err |-> FALSE, StatusCode |-> s]
TargetAnswers == {[err |-> FALSE, StatusCode |-> 200, Body |-> <<"H">>],
                  [err |-> FALSE, StatusCode |-> 504, Body |-> <<"T">>],
                  [err |-> TRUE, StatusCode |-> 0, Body |-> <<>>]}
NoAnswer == [err |-> FALSE, StatusCode |-> 0, Body |-> <<>>]
NoResp == [StatusCode |-> 0, Body |-> <<>>]

\* var hopHeaders
hopHeaders == <<"Connection", "Keep-Alive", "Proxy-Authenticate", "Proxy-Authorization",
                "Te", "Trailers", "Transfer-Encoding", "Upgrade">>

\* inbound header sets, their keys in the canonical form the server stores: two
\* hop-by-hop headers and one end-to-end header, each absent or with the values
\* <<"">>, <<"v">> or <<"", "v">>
HeaderKeys == {"Connection", "Upgrade", "Accept"}
HeaderValues == {<<"">>, <<"v">>, <<"", "v">>}
HeaderSets == UNION {[keys -> HeaderValues] : keys \in SUBSET HeaderKeys}
DefaultHeader == [k \in {"Connection", "Accept"} |-> <<"v">>]

HostsConfigs ==
    {[Target |-> [Scheme |-> "http", Host |-> "T", Path |-> <<"/", "b">>, RawQuery |-> q],
      Alternative |-> [Scheme |-> "http", Host |-> "S", Path |-> <<"/", "a">>, RawQuery |-> <<>>]]
        : q \in {<<>>, <<"k">>}}

(***************************************************************************)
(* Pure helpers.                                                           *)
(***************************************************************************)
HasSuffixSlash(a) == Len(a) > 0 /\ a[Len(a)] = "/"
HasPrefixSlash(b) == Len(b) > 0 /\ b[1] = "/"

singleJoiningSlashConcat(a, b) == a \o b

singleJoiningSlash(a, b) ==
    CASE HasSuffixSlash(a) /\ HasPrefixSlash(b) -> a \o Tail(b)
      [] ~HasSuffixSlash(a) /\ ~HasPrefixSlash(b) -> a \o <<"/">> \o b
      [] OTHER -> a \o b

logMessage(i, messageType, message) ==
    log' = Append(log, [id |-> i, messageType |-> messageType, message |-> message])

NewReader(data) == [data |-> data, off |-> 0]
AtEOF(r) == readers[r].off >= Len(readers[r].data)
NextByte(r) == readers[r].data[readers[r].off + 1]
Advance(r) == [readers EXCEPT ![r].off = @ + 1]

\* a (*http.Response, error) pair, each nil before anything is returned
NoResult == [resp |-> Nil, err |-> Nil]

\* no caller is in the timer-raced RoundTrip
TimeoutIdle ==
    /\ ttPc = "idle"
    /\ ttWorker = "idle"
    /\ ttTimer = "unset"
    /\ ttUnderlying = NoResult
    /\ ttResp = <<>>
    /\ ttCancelled = FALSE
    /\ ttResult = NoResult

\* the state when teeDirector is entered, for the given configurations and requests
InitWith(hostsConfigs, retryCounts, paths, queries, bodies, headerSets) ==
    /\ hosts \in hostsConfigs
    /\ retryCount \in retryCounts
    /\ inbound \in [Path : paths, RawQuery : queries, Body : bodies, Header : headerSets]
    /\ id = Nil
    /\ req = [URL |-> [Scheme |-> "", Host |-> "", Path |-> inbound.Path,
                       RawQuery |-> inbound.RawQuery],
              Body |-> "inbound",
              Header |-> "inbound"]
    /\ readers = [r \in {"inbound", "primary", "shadow"} |->
                    IF r = "inbound" THEN NewReader(inbound.Body) ELSE NewReader(<<>>)]
    /\ headers = [r \in {"inbound"} |-> inbound.Header]
    /\ prPc = "teeDirector"
    /\ prReader = Nil
    /\ targetRecv = [URL |-> NoURL, Body |-> <<>>]
    /\ targetAnswer = NoAnswer
    /\ clientResp = NoResp
    /\ shPc = "idle"
    /\ shReader = Nil
    /\ b1 = <<>>
    /\ b2 = <<>>
    /\ req2 = [URL |-> NoURL, Body |-> Nil, Header |-> Nil]
    /\ bodyBytes = <<>>
    /\ retry = 0
    /\ resp = Response(0)
    /\ altRecv = <<>>
    /\ altAnswers = <<>>
    /\ log = <<>>
    /\ panicked = FALSE
    /\ crashed = FALSE
    /\ TimeoutIdle

Init ==
    InitWith(HostsConfigs, 0..MaxRetryCount, ReqPaths, ReqQueries, Bodies, {DefaultHeader})

(***************************************************************************)
(* teeDirector, on the serving goroutine.                                  *)
(***************************************************************************)
\* id := uuid.NewUUID(); DumpRequest; logMessage(id, "INFO", "Request: ...")
TeeDirectorLog ==
    /\ ~crashed
    /\ prPc = "teeDirector"
    /\ \E i \in Ids : id' = i /\ logMessage(i, "INFO", "Request")
    /\ prPc' = "go"
    /\ UNCHANGED <<cfgVars, headers, ttVars, req, readers, prReader, targetRecv, targetAnswer,
                   clientResp, shVars, crashed>>

\* clientCall(id, req) without `go`: the caller stays in the call
callClientCall ==
    /\ shPc' = "clientCall"
    /\ prPc' = "inClientCall"

\* go clientCall(id, req): the goroutine is started and the caller goes on
goClientCall ==
    /\ shPc' = "clientCall"
    /\ prPc' = "rewriteHost"

TeeDirectorGo ==
    /\ ~crashed
    /\ prPc = "go"
    /\ goClientCall
    /\ UNCHANGED <<cfgVars, headers, ttVars, id, req, readers, prReader, targetRecv, targetAnswer,
                   clientResp, shReader, b1, b2, req2, bodyBytes, retry, resp,
                   altRecv, altAnswers, log, panicked, crashed>>

\* req.URL.Scheme = hosts.Target.Scheme; req.URL.Host = hosts.Target.Host
TeeDirectorRewriteHost ==
    /\ ~crashed
    /\ prPc = "rewriteHost"
    /\ req' = [req EXCEPT !.URL.Scheme = hosts.Target.Scheme,
                          !.URL.Host = hosts.Target.Host]
    /\ prPc' = "rewritePath"
    /\ UNCHANGED <<cfgVars, headers, ttVars, id, readers, prReader, targetRecv, targetAnswer,
                   clientResp, shVars, log, crashed>>

\* req.URL.Path = singleJoiningSlash(hosts.Target.Path, req.URL.Path)
TeeDirectorRewritePath ==
    /\ ~crashed
    /\ prPc = "rewritePath"
    /\ req' = [req EXCEPT !.URL.Path = singleJoiningSlash(hosts.Target.Path, req.URL.Path)]
    /\ prPc' = "rewriteQuery"
    /\ UNCHANGED <<cfgVars, headers, ttVars, id, readers, prReader, targetRecv, targetAnswer,
                   clientResp, shVars, log, crashed>>

mergeQueryAlwaysAmpersand(targetQuery, rawQuery) == targetQuery \o <<"&">> \o rawQuery

\* if targetQuery == "" || req.URL.RawQuery == "" { t + q } else { t + "&" + q }
mergeQuery(targetQuery, rawQuery) ==
    IF targetQuery = <<>> \/ rawQuery = <<>>
    THEN targetQuery \o rawQuery
    ELSE targetQuery \o <<"&">> \o rawQuery

\* the query merge that ends teeDirector
TeeDirectorRewriteQuery ==
    /\ ~crashed
    /\ prPc = "rewriteQuery"
    /\ req' = [req EXCEPT !.URL.RawQuery = mergeQuery(hosts.Target.RawQuery, req.URL.RawQuery)]
    /\ prPc' = "roundTrip"
    /\ UNCHANGED <<cfgVars, headers, ttVars, id, readers, prReader, targetRecv, targetAnswer,
                   clientResp, shVars, log, crashed>>

(***************************************************************************)
(* The reverse proxy after the director: proxy.ServeHTTP hands the request *)
(* to TimeoutTransport.RoundTrip, which is http.Transport.RoundTrip with   *)
(* no deadline; the transport writes the URL and then req.Body.            *)
(***************************************************************************)
\* the transport takes the request's URL and the reader req.Body holds now
ProxyRoundTrip ==
    /\ ~crashed
    /\ prPc = "roundTrip"
    /\ prReader' = req.Body
    /\ targetRecv' = [URL |-> req.URL, Body |-> <<>>]
    /\ prPc' = "writeBody"
    /\ UNCHANGED <<cfgVars, headers, ttVars, id, req, readers, targetAnswer, clientResp, shVars,
                   log, crashed>>

\* one Read of the request body, written to the target; EOF ends the request
ProxyWriteBody ==
    /\ ~crashed
    /\ prPc = "writeBody"
    /\ IF AtEOF(prReader)
       THEN /\ prPc' = "awaitTarget"
            /\ UNCHANGED <<readers, targetRecv>>
       ELSE /\ targetRecv' = [targetRecv EXCEPT !.Body = Append(@, NextByte(prReader))]
            /\ readers' = Advance(prReader)
            /\ prPc' = prPc
    /\ UNCHANGED <<cfgVars, headers, ttVars, id, req, prReader, targetAnswer, clientResp, shVars,
                   log, crashed>>

\* the target backend answers, or the round trip fails; it may also never answer
TargetAnswer ==
    /\ ~crashed
    /\ prPc = "awaitTarget"
    /\ \E a \in TargetAnswers : targetAnswer' = a
    /\ prPc' = "copyResponse"
    /\ UNCHANGED <<cfgVars, headers, ttVars, id, req, readers, prReader, targetRecv, clientResp,
                   shVars, log, crashed>>

\* the proxy writes the target's status and body to the client (500 on an error)
ProxyCopyResponse ==
    /\ ~crashed
    /\ prPc = "copyResponse"
    /\ clientResp' = IF targetAnswer.err
                     THEN [StatusCode |-> 500, Body |-> <<>>]
                     ELSE [StatusCode |-> targetAnswer.StatusCode, Body |-> targetAnswer.Body]
    /\ prPc' = "done"
    /\ UNCHANGED <<cfgVars, headers, ttVars, id, req, readers, prReader, targetRecv, targetAnswer,
                   shVars, log, crashed>>

Primary ==
    \/ TeeDirectorLog
    \/ TeeDirectorGo
    \/ TeeDirectorRewriteHost
    \/ TeeDirectorRewritePath
    \/ TeeDirectorRewriteQuery
    \/ ProxyRoundTrip
    \/ ProxyWriteBody
    \/ ProxyCopyResponse

(***************************************************************************)
(* clientCall, on the goroutine teeDirector started.                       *)
(***************************************************************************)
\* the deferred recover is in place; duplicateRequest starts io.Copy(w, request.Body)
ClientCallStart ==
    /\ ~crashed
    /\ shPc = "clientCall"
    /\ shReader' = req.Body
    /\ shPc' = "dupCopy"
    /\ UNCHANGED <<cfgVars, headers, ttVars, id, req, readers, prVars, b1, b2, req2, bodyBytes,
                   retry, resp, altRecv, altAnswers, log, panicked, crashed>>

\* one Read of io.Copy, written through the MultiWriter to b1 and b2
DuplicateRequestCopy ==
    /\ ~crashed
    /\ shPc = "dupCopy"
    /\ IF AtEOF(shReader)
       THEN /\ shPc' = "dupInstall"
            /\ UNCHANGED <<readers, b1, b2>>
       ELSE /\ b1' = Append(b1, NextByte(shReader))
            /\ b2' = Append(b2, NextByte(shReader))
            /\ readers' = Advance(shReader)
            /\ shPc' = shPc
    /\ UNCHANGED <<cfgVars, headers, ttVars, id, req, prVars, shReader, req2, bodyBytes, retry,
                   resp, altRecv, altAnswers, log, panicked, crashed>>

\* request.Body = ioutil.NopCloser(bytes.NewReader(b2.Bytes()))
DuplicateRequestInstall ==
    /\ ~crashed
    /\ shPc = "dupInstall"
    /\ readers' = [readers EXCEPT !["primary"] = NewReader(b2)]
    /\ req' = [req EXCEPT !.Body = "primary"]
    /\ shPc' = "dupPath"
    /\ UNCHANGED <<cfgVars, headers, ttVars, id, prVars, shReader, b1, b2, req2, bodyBytes, retry,
                   resp, altRecv, altAnswers, log, panicked, crashed>>

\* request2.URL: Scheme, Host and Path, which reads request.URL.Path
DuplicateRequestPath ==
    /\ ~crashed
    /\ shPc = "dupPath"
    /\ req2' = [req2 EXCEPT !.URL.Scheme = hosts.Alternative.Scheme,
                            !.URL.Host = hosts.Alternative.Host,
                            !.URL.Path = singleJoiningSlash(hosts.Alternative.Path, req.URL.Path)]
    /\ shPc' = "dupQuery"
    /\ UNCHANGED <<cfgVars, headers, ttVars, id, req, readers, prVars, shReader, b1, b2, bodyBytes,
                   retry, resp, altRecv, altAnswers, log, panicked, crashed>>

\* request2.URL.RawQuery, which reads request.URL.RawQuery; Header: request.Header
DuplicateRequestQuery ==
    /\ ~crashed
    /\ shPc = "dupQuery"
    /\ req2' = [req2 EXCEPT !.URL.RawQuery = req.URL.RawQuery,
                            !.Header = req.Header]
    /\ shPc' = "dupHeaders"
    /\ UNCHANGED <<cfgVars, headers, ttVars, id, req, readers, prVars, shReader, b1, b2,
                   bodyBytes, retry, resp, altRecv, altAnswers, log, panicked, crashed>>

\* the header set has key with at least one value: Header.Get(key) is the first
HeaderGet(h, key) == IF key \in DOMAIN h /\ h[key] # <<>> THEN h[key][1] ELSE ""

\* Header.Del(key)
HeaderDel(h, key) == [k \in DOMAIN h \ {key} |-> h[k]]

\* make(http.Header)
EmptyHeader == [k \in {} |-> <<>>]

\* for k, vv := range src { for _, v := range vv { dst.Add(k, v) } }
copyHeader(dst, src) ==
    [k \in DOMAIN dst \cup {k \in DOMAIN src : src[k] # <<>>} |->
        (IF k \in DOMAIN dst THEN dst[k] ELSE <<>>)
          \o (IF k \in DOMAIN src THEN src[k] ELSE <<>>)]

\* the heap with a header set at name
Allocate(heap, name, h) ==
    [r \in DOMAIN heap \cup {name} |-> IF r = name THEN h ELSE heap[r]]

\* for _, h := range hopHeaders { if request2.Header.Get(h) != "" { ... } }, from the
\* i-th name on; st is [request, request2 (the names of the two requests' header
\* sets), heap, copiedHeaders]
RECURSIVE removeHopHeaders(_, _)
removeHopHeaders(i, st) ==
    IF i > Len(hopHeaders) THEN st
    ELSE IF HeaderGet(st.heap[st.request2], hopHeaders[i]) # ""
         THEN LET copied ==
                      IF ~st.copiedHeaders
                      THEN [st EXCEPT
                              !.request2 = "copy",
                              !.heap = Allocate(st.heap, "copy",
                                                copyHeader(EmptyHeader, st.heap[st.request])),
                              !.copiedHeaders = TRUE]
                      ELSE st
              IN  removeHopHeaders(i + 1,
                     [copied EXCEPT !.heap[copied.request2] = HeaderDel(@, hopHeaders[i])])
         ELSE removeHopHeaders(i + 1, st)

\* the loop over hopHeaders; return request2, b1.Bytes()
DuplicateRequestHeaders ==
    /\ ~crashed
    /\ shPc = "dupHeaders"
    /\ LET st == removeHopHeaders(1, [request |-> req.Header, request2 |-> req2.Header,
                                      heap |-> headers, copiedHeaders |-> FALSE])
       IN  /\ headers' = st.heap
           /\ req2' = [req2 EXCEPT !.Header = st.request2]
    /\ bodyBytes' = b1
    /\ retry' = 0
    /\ shPc' = "loop"
    /\ UNCHANGED <<cfgVars, ttVars, id, req, readers, prVars, shReader, b1, b2, resp,
                   altRecv, altAnswers, log, panicked, crashed>>

\* req2.Body = ioutil.NopCloser(bytes.NewReader(bodyBytes))
installBody ==
    /\ readers' = [readers EXCEPT !["shadow"] = NewReader(bodyBytes)]
    /\ req2' = [req2 EXCEPT !.Body = "shadow"]

\* the loop condition written with <=: one attempt too many
loopConditionInclusive == retry <= retryCount

\* the loop condition retry < *retryCount
loopCondition == retry < retryCount

\* for retry < *retryCount: a fresh body; after the loop: "Request failed"
ClientCallLoop ==
    /\ ~crashed
    /\ shPc = "loop"
    /\ IF loopCondition
       THEN /\ installBody
            /\ shPc' = "send"
            /\ UNCHANGED log
       ELSE /\ logMessage(id, "ERROR", "Request failed")
            /\ shPc' = "done"
            /\ UNCHANGED <<readers, req2>>
    /\ UNCHANGED <<cfgVars, headers, ttVars, id, req, prVars, shReader, b1, b2, bodyBytes, retry,
                   resp, altRecv, altAnswers, panicked, crashed>>

\* what is left to read of a body (nothing of a nil one)
Unread(body) ==
    IF body = Nil THEN <<>>
    ELSE SubSeq(readers[body].data, readers[body].off + 1, Len(readers[body].data))

\* http.DefaultTransport.RoundTrip(req2): the request goes out, its body read to the end
ClientCallSend ==
    /\ ~crashed
    /\ shPc = "send"
    /\ altRecv' = Append(altRecv, [URL |-> req2.URL, Body |-> Unread(req2.Body)])
    /\ readers' = IF req2.Body = Nil THEN readers
                  ELSE [readers EXCEPT ![req2.Body] = [data |-> @.data, off |-> Len(@.data)]]
    /\ shPc' = "awaitAlt"
    /\ UNCHANGED <<cfgVars, headers, ttVars, id, req, prVars, shReader, b1, b2, req2, bodyBytes,
                   retry, resp, altAnswers, log, panicked, crashed>>

\* the alternative backend answers, or the round trip fails; it may also never answer
AltAnswer ==
    /\ ~crashed
    /\ shPc = "awaitAlt"
    /\ \E a \in {NetErr} \cup {Response(s) : s \in Statuses} :
          /\ resp' = a
          /\ altAnswers' = Append(altAnswers, a)
    /\ shPc' = "gotResp"
    /\ UNCHANGED <<cfgVars, headers, ttVars, id, req, readers, prVars, shReader, b1, b2, req2,
                   bodyBytes, retry, altRecv, log, panicked, crashed>>

\* the error branch without its return: the failure is slept on and retried
invokeFailedRetried ==
    /\ logMessage(id, "ERROR", "Invoking client failed")
    /\ shPc' = "sleep"

invokeFailedSilent ==
    /\ UNCHANGED log
    /\ shPc' = "done"

\* if err != nil { logMessage(id, "ERROR", "Invoking client failed ..."); return }
invokeFailed ==
    /\ logMessage(id, "ERROR", "Invoking client failed")
    /\ shPc' = "done"

\* if err != nil: ERROR and return; else the response is dumped, logged, drained, closed
ClientCallResponse ==
    /\ ~crashed
    /\ shPc = "gotResp"
    /\ IF resp.err
       THEN invokeFailed
       ELSE /\ logMessage(id, "INFO", "Response")
            /\ shPc' = "checkStatus"
    /\ UNCHANGED <<cfgVars, headers, ttVars, id, req, readers, prVars, shReader, b1, b2, req2,
                   bodyBytes, retry, resp, altRecv, altAnswers, panicked, crashed>>

\* the status test without its upper limit
notServerErrorBelow500(StatusCode) == StatusCode < 500

\* the status test that lets only 1xx and 2xx end the call
notServerErrorBelow300(StatusCode) == StatusCode < 300

\* resp.StatusCode < 500 || resp.StatusCode >= 600
notServerError(StatusCode) == StatusCode < 500 \/ StatusCode >= 600

\* retry+1 != *retryCount
notLastAttempt == retry + 1 # retryCount

\* a non-5xx ends the call; a 5xx is retried, after a WARN and a sleep unless it was the last
ClientCallCheckStatus ==
    /\ ~crashed
    /\ shPc = "checkStatus"
    /\ IF notServerError(resp.StatusCode)
       THEN /\ shPc' = "done"
            /\ UNCHANGED <<retry, log>>
       ELSE IF notLastAttempt
            THEN /\ logMessage(id, "WARN", "Received 5xx response. Retrying request")
                 /\ shPc' = "sleep"
                 /\ UNCHANGED retry
            ELSE /\ retry' = retry + 1
                 /\ shPc' = "loop"
                 /\ UNCHANGED log
    /\ UNCHANGED <<cfgVars, headers, ttVars, id, req, readers, prVars, shReader, b1, b2, req2,
                   bodyBytes, resp, altRecv, altAnswers, panicked, crashed>>

\* time.Sleep returns; retry++
ClientCallSleep ==
    /\ ~crashed
    /\ shPc = "sleep"
    /\ retry' = retry + 1
    /\ shPc' = "loop"
    /\ UNCHANGED <<cfgVars, headers, ttVars, id, req, readers, prVars, shReader, b1, b2, req2,
                   bodyBytes, resp, altRecv, altAnswers, log, panicked, crashed>>

\* clientCall without the deferred recover: the panic ends the process
panicUnrecovered ==
    /\ crashed' = TRUE
    /\ shPc' = "done"
    /\ UNCHANGED log

\* defer func() { if r := recover(); r != nil { logMessage(id, "ERROR", "Recovered ...") } }()
recoverClientCall ==
    /\ logMessage(id, "ERROR", "Recovered in clientCall")
    /\ shPc' = "done"
    /\ crashed' = crashed

Running == shPc \notin {"idle", "done"}

\* a runtime fault anywhere in clientCall unwinds to the deferred function
ClientCallPanic ==
    /\ ~crashed
    /\ Running
    /\ panicked' = TRUE
    /\ recoverClientCall
    /\ UNCHANGED <<cfgVars, headers, ttVars, id, req, readers, prVars, shReader, b1, b2, req2,
                   bodyBytes, retry, resp, altRecv, altAnswers>>

Shadow ==
    \/ ClientCallStart
    \/ DuplicateRequestCopy
    \/ DuplicateRequestInstall
    \/ DuplicateRequestPath
    \/ DuplicateRequestQuery
    \/ DuplicateRequestHeaders
    \/ ClientCallLoop
    \/ ClientCallSend
    \/ ClientCallResponse
    \/ ClientCallCheckStatus
    \/ ClientCallSleep

Next == Primary \/ TargetAnswer \/ Shadow \/ AltAnswer \/ ClientCallPanic

Spec == Init /\ [][Next]_vars

\* the serving goroutine is scheduled whenever it can take a step of its own;
\* nothing is assumed of the backends or of the goroutine running clientCall
FairInit ==
    /\ Init
    /\ inbound.RawQuery = <<>>
    /\ hosts.Target.RawQuery = <<>>

FairSpec == FairInit /\ [][Next]_vars /\ WF_vars(Primary)

\* the strings over an alphabet, up to a length
Strings(alphabet, maxLen) == UNION {[1..n -> alphabet] : n \in 0..maxLen}

\* teeDirector for every Target URL and inbound URL: paths of "/" and a letter,
\* queries of "&" and a letter
DirectorHosts ==
    {[Target |-> [Scheme |-> "http", Host |-> "T", Path |-> p, RawQuery |-> q],
      Alternative |-> [Scheme |-> "http", Host |-> "S", Path |-> <<"/", "a">>, RawQuery |-> <<>>]]
        : p \in Strings({"/", "a"}, MaxPathLen), q \in Strings({"&", "x"}, MaxQueryLen)}

DirectorInit ==
    InitWith(DirectorHosts, {1}, Strings({"/", "b"}, MaxPathLen),
             Strings({"&", "y"}, MaxQueryLen), {<<>>}, {DefaultHeader})

DirectorNext ==
    \/ TeeDirectorLog
    \/ TeeDirectorGo
    \/ TeeDirectorRewriteHost
    \/ TeeDirectorRewritePath
    \/ TeeDirectorRewriteQuery

SpecDirector == DirectorInit /\ [][DirectorNext]_vars

(***************************************************************************)
(* TimeoutTransport.RoundTrip as the revision with a deadline has it: the  *)
(* round trip of the embedded http.Transport runs on a goroutine of its own *)
(* and is raced against a timer.                                           *)
(***************************************************************************)
teeVars == <<cfgVars, id, req, readers, headers, prVars, shVars, log, crashed>>

\* netTimeoutError{fmt.Errorf("timed out after %s", t.RoundTripTimeout)}
netTimeoutError == "timed out after 1m0s"

\* err.Timeout(): true of netTimeoutError, and of the transport's own i/o timeouts
Timeout(err) == err \in {netTimeoutError, "i/o timeout"}

\* what t.Transport.RoundTrip can return: a response and no error, or no
\* response and an error, the error of a cancelled request only after a cancel
UnderlyingResults ==
    {[resp |-> r, err |-> Nil] : r \in {"200", "404", "500", "504"}}
      \cup {[resp |-> Nil, err |-> e] : e \in {"connection refused", "i/o timeout", "EOF"}}
      \cup {[resp |-> Nil, err |-> e] : e \in IF ttCancelled THEN {"request canceled"} ELSE {}}

\* timeout := time.After(...); resp := make(chan respAndErr, 1); go func() {...}()
RoundTripStart ==
    /\ ttPc = "idle"
    /\ ttTimer' = "armed"
    /\ ttResp' = <<>>
    /\ ttWorker' = "roundTrip"
    /\ ttPc' = "select"
    /\ UNCHANGED <<teeVars, ttUnderlying, ttCancelled, ttResult>>

\* the timer runs out and the channel timeout becomes ready
TimerFires ==
    /\ ttTimer = "armed"
    /\ ttTimer' = "fired"
    /\ UNCHANGED <<teeVars, ttPc, ttWorker, ttUnderlying, ttResp, ttCancelled, ttResult>>

\* r, e := t.Transport.RoundTrip(req) returns, if it ever does
UnderlyingReturns ==
    /\ ttWorker = "roundTrip"
    /\ ttUnderlying' \in UnderlyingResults
    /\ ttWorker' = "send"
    /\ UNCHANGED <<teeVars, ttPc, ttTimer, ttResp, ttCancelled, ttResult>>

respUnbuffered == ttPc = "select" /\ ttResp = <<>>

\* a send on resp proceeds while the channel of capacity 1 has room
respHasRoom == Len(ttResp) < 1

\* resp <- respAndErr{resp: r, err: e}, and the goroutine ends
WorkerSend ==
    /\ ttWorker = "send"
    /\ respHasRoom
    /\ ttResp' = Append(ttResp, ttUnderlying)
    /\ ttWorker' = "done"
    /\ UNCHANGED <<teeVars, ttPc, ttTimer, ttUnderlying, ttCancelled, ttResult>>

timeoutReadyAfterWorker == ttTimer = "fired" /\ ttWorker = "done"

\* case <-timeout can be taken
timeoutReady == ttTimer = "fired"

\* case <-timeout: t.Transport.CancelRequest(req); return nil, netTimeoutError{...}
SelectTimeout ==
    /\ ttPc = "select"
    /\ timeoutReady
    /\ ttCancelled' = TRUE
    /\ ttResult' = [resp |-> Nil, err |-> netTimeoutError]
    /\ ttPc' = "returned"
    /\ UNCHANGED <<teeVars, ttWorker, ttTimer, ttUnderlying, ttResp>>

forwardWithoutError(r) == [resp |-> r.resp, err |-> Nil]

\* return r.resp, r.err
forward(r) == [resp |-> r.resp, err |-> r.err]

\* case r := <-resp: return r.resp, r.err
SelectResp ==
    /\ ttPc = "select"
    /\ ttResp # <<>>
    /\ ttResult' = forward(Head(ttResp))
    /\ ttResp' = Tail(ttResp)
    /\ ttPc' = "returned"
    /\ UNCHANGED <<teeVars, ttWorker, ttTimer, ttUnderlying, ttCancelled>>

\* RoundTrip is called with any of the requests
TimeoutInit ==
    InitWith({h \in HostsConfigs : h.Target.RawQuery = <<>>}, {1}, ReqPaths, ReqQueries,
             Bodies, {DefaultHeader})

TimeoutNext ==
    \/ RoundTripStart
    \/ TimerFires
    \/ UnderlyingReturns
    \/ WorkerSend
    \/ SelectTimeout
    \/ SelectResp

\* the timer fires, and the caller and the goroutine run when they can; nothing
\* is assumed of the embedded transport's round trip
SpecTimeout ==
    /\ TimeoutInit
    /\ [][TimeoutNext]_vars
    /\ WF_vars(RoundTripStart)
    /\ WF_vars(TimerFires)
    /\ WF_vars(WorkerSend)
    /\ WF_vars(SelectTimeout \/ SelectResp)

\* duplicateRequest on the request as the server handed it over, for every
\* inbound header set: clientCall runs up to the return of duplicateRequest
\* before teeDirector rewrites the request
DuplicateInit ==
    InitWith({h \in HostsConfigs : h.Target.RawQuery = <<>>}, {1}, ReqPaths, {<<>>},
             Bodies, HeaderSets)

DuplicateNext ==
    \/ TeeDirectorLog
    \/ TeeDirectorGo
    \/ ClientCallStart
    \/ DuplicateRequestCopy
    \/ DuplicateRequestInstall
    \/ DuplicateRequestPath
    \/ DuplicateRequestQuery
    \/ DuplicateRequestHeaders

SpecDuplicate == DuplicateInit /\ [][DuplicateNext]_vars

(***************************************************************************)
(* Properties.                                                             *)
(***************************************************************************)
Is5xx(StatusCode) == 500 <= StatusCode /\ StatusCode <= 599
ProxySentBody == prPc \in {"awaitTarget", "copyResponse", "done"}

\* the URL the shadow request must carry: built from the request as it came in
ShadowURL ==
    [Scheme |-> hosts.Alternative.Scheme,
     Host |-> hosts.Alternative.Host,
     Path |-> singleJoiningSlash(hosts.Alternative.Path, inbound.Path),
     RawQuery |-> inbound.RawQuery]

\* C1: whatever the interleaving of clientCall's duplicateRequest with the
\* proxy's transport, the body the target backend receives is the inbound body.
C1_PrimaryBodyIsInboundBody ==
    ProxySentBody => targetRecv.Body = inbound.Body

\* C2: every request the shadow task sends carries the scheme and host of
\* hosts.Alternative, the path join(Alternative.Path, P) and the query Q of the
\* inbound request, never the path or query teeDirector rewrote.
C2_ShadowURLFromInboundRequest ==
    \A n \in DOMAIN altRecv : altRecv[n].URL = ShadowURL

\* C3: every attempt of the shadow dispatcher sends the inbound body, byte for
\* byte: attempt N sends what attempt 1 sent, and that is the original body.
C3_EveryAttemptSendsInboundBody ==
    \A n \in DOMAIN altRecv : altRecv[n].Body = inbound.Body

CountLog(messageType, message) ==
    Cardinality({n \in DOMAIN log : /\ log[n].messageType = messageType
                                    /\ log[n].message = message})
CountErrors == Cardinality({n \in DOMAIN log : log[n].messageType = "ERROR"})
LastLogIs(messageType, message) ==
    /\ log # <<>>
    /\ log[Len(log)] = [id |-> id, messageType |-> messageType, message |-> message]

ServerErrorAnswer(a) == ~a.err /\ Is5xx(a.StatusCode)
OtherStatusAnswer(a) == ~a.err /\ ~Is5xx(a.StatusCode)
AllServerErrors == \A n \in DOMAIN altAnswers : ServerErrorAnswer(altAnswers[n])

\* C4: against a backend that answers every round trip with a 5xx, clientCall
\* makes exactly retryCount round trips (warning and sleeping between them, not
\* after the last), then logs one ERROR "Request failed" as its last line.
C4_AlwaysServerErrorGivesUp ==
    /\ Len(altRecv) <= retryCount
    /\ (shPc = "done" /\ ~panicked /\ AllServerErrors)
         => /\ Len(altRecv) = retryCount
            /\ Len(altAnswers) = retryCount
            /\ CountLog("ERROR", "Request failed") = 1
            /\ CountErrors = 1
            /\ LastLogIs("ERROR", "Request failed")
            /\ retryCount >= 1 =>
                 CountLog("WARN", "Received 5xx response. Retrying request") = retryCount - 1

C4_Witness ==
    /\ shPc = "done"
    /\ ~panicked
    /\ retryCount >= 2
    /\ Len(altAnswers) = retryCount
    /\ AllServerErrors
    /\ LastLogIs("ERROR", "Request failed")

\* the answers so far are those of a backend that answers 5xx to the first
\* retryCount-1 round trips and a non-5xx status to the last
ServerErrorsThenOther ==
    /\ Len(altAnswers) <= retryCount
    /\ \A n \in DOMAIN altAnswers :
          IF n < retryCount THEN ServerErrorAnswer(altAnswers[n])
                            ELSE OtherStatusAnswer(altAnswers[n])

\* C5: against a backend that answers the first retryCount-1 round trips with a
\* 5xx and the last with a non-5xx status, clientCall ends only after exactly
\* retryCount round trips, and without any ERROR line ("Request failed" included).
C5_LastAttemptSucceeds ==
    (shPc = "done" /\ ~panicked /\ retryCount >= 1 /\ ServerErrorsThenOther)
      => /\ Len(altRecv) = retryCount
         /\ Len(altAnswers) = retryCount
         /\ CountLog("ERROR", "Request failed") = 0
         /\ CountErrors = 0
         /\ CountLog("WARN", "Received 5xx response. Retrying request") = retryCount - 1

C5_Witness ==
    /\ shPc = "done"
    /\ ~panicked
    /\ retryCount >= 2
    /\ Len(altAnswers) = retryCount
    /\ ServerErrorsThenOther
    /\ CountErrors = 0

OtherStatusSeen == \E n \in DOMAIN altAnswers : OtherStatusAnswer(altAnswers[n])
TransportErrorSeen == \E n \in DOMAIN altAnswers : altAnswers[n].err
NewLogLines == {n \in DOMAIN log' : n > Len(log)}

\* C6: once a shadow round trip has returned a status outside [500,599],
\* clientCall only finishes: no step sends again, warns, sleeps or logs
\* "Request failed", whatever the attempt number.
C6_StopsOnFirstOtherStatus ==
    [][/\ OtherStatusSeen' => shPc' \in {"gotResp", "checkStatus", "done"}
       /\ OtherStatusSeen =>
            /\ altRecv' = altRecv
            /\ altAnswers' = altAnswers
            /\ retry' = retry
            /\ \A n \in NewLogLines :
                  /\ log'[n].messageType # "WARN"
                  /\ log'[n].message # "Request failed"]_vars

C6_Witness ==
    /\ shPc = "done"
    /\ ~panicked
    /\ OtherStatusSeen
    /\ Len(altAnswers) = 2
    /\ retryCount > Len(altAnswers)
    /\ altAnswers[2].StatusCode = 499

\* C7: once a shadow round trip has returned a transport error, clientCall logs
\* one ERROR "Invoking client failed" and returns: no round trip follows, even
\* with attempts left.
C7_TransportErrorIsFinal ==
    /\ [](shPc = "done" /\ TransportErrorSeen /\ ~panicked
            => /\ CountErrors = 1
               /\ LastLogIs("ERROR", "Invoking client failed"))
    /\ [][/\ TransportErrorSeen' => shPc' \in {"gotResp", "done"}
          /\ TransportErrorSeen =>
               /\ altRecv' = altRecv
               /\ altAnswers' = altAnswers
               /\ retry' = retry]_vars

C7_Witness ==
    /\ shPc = "done"
    /\ ~panicked
    /\ TransportErrorSeen
    /\ Len(altAnswers) = 1
    /\ retryCount >= 2
    /\ LastLogIs("ERROR", "Invoking client failed")

FromTarget ==
    IF targetAnswer.err
    THEN [StatusCode |-> 500, Body |-> <<>>]
    ELSE [StatusCode |-> targetAnswer.StatusCode, Body |-> targetAnswer.Body]

\* C9: the serving goroutine never waits for clientCall: teeDirector returns and
\* the request reaches the target wherever the shadow task stands (not started,
\* in a round trip that is never answered, asleep between retries); an answer of
\* the target reaches the client; nothing but the target's answer is written to
\* the client.
C9_PrimaryNeverWaitsForShadow ==
    /\ <>(prPc = "awaitTarget")
    /\ [](prPc = "copyResponse" => <>(prPc = "done" /\ clientResp = FromTarget))
    /\ [](clientResp # NoResp => prPc = "done" /\ clientResp = FromTarget)

C9_Witness ==
    /\ prPc = "done"
    /\ clientResp = [StatusCode |-> 200, Body |-> <<"H">>]
    /\ shPc = "awaitAlt"
    /\ Len(altRecv) = 2

\* C10: a round trip to the target is bounded by a deadline: TimeoutTransport's
\* RoundTrip returns even when the target backend never answers.
C10_TargetRoundTripReturns ==
    (prPc = "awaitTarget") ~> (prPc # "awaitTarget")

\* clientCall has returned and no answer it received had a status outside 5xx
EndedWithoutOtherStatus == shPc = "done" /\ ~OtherStatusSeen

ErrorLogged ==
    \E n \in DOMAIN log : log[n].id = id /\ log[n].messageType = "ERROR"

\* C18: no shadow-side failure is silent: a clientCall that has returned without
\* ever receiving a status outside 5xx (a transport error, a 5xx on the last
\* attempt, a runtime fault) has logged at least one ERROR under the request's
\* correlation id.
C18_NoSilentShadowFailure ==
    /\ id \in Ids \cup {Nil}
    /\ EndedWithoutOtherStatus => (id \in Ids /\ ErrorLogged)

C18_Witness ==
    /\ EndedWithoutOtherStatus
    /\ ~panicked
    /\ TransportErrorSeen
    /\ Len(altAnswers) = 2
    /\ CountErrors = 1

\* C19: "Request failed" is logged only after the last allowed attempt was made
\* and answered with a 5xx: whatever -rc holds, the entry is preceded by at least
\* one round trip to the alternative backend.
C19_RequestFailedFollowsAnAttempt ==
    CountLog("ERROR", "Request failed") >= 1 =>
        /\ Len(altRecv) >= 1
        /\ Len(altAnswers) = Len(altRecv)
        /\ ServerErrorAnswer(altAnswers[Len(altAnswers)])

\* duplicateRequest has returned
Duplicated == shPc = "loop"

HopHeaderNames == {hopHeaders[i] : i \in DOMAIN hopHeaders}

\* C13: after duplicateRequest the clone's header set holds none of Connection,
\* Keep-Alive, Proxy-Authenticate, Proxy-Authorization, Te, Trailers,
\* Transfer-Encoding, Upgrade, whatever the inbound header set was, one that has
\* such a header with an empty value included.
C13_CloneHasNoHopHeader ==
    Duplicated => DOMAIN headers[req2.Header] \cap HopHeaderNames = {}

\* C14: duplicateRequest never changes the inbound header set; with a hop-by-hop
\* header present the clone holds a newly allocated header set, the inbound one
\* less the hop-by-hop headers; with none present the clone holds the inbound
\* header set itself and no header set was allocated.
C14_CopyOnWrite ==
    /\ headers[req.Header] = inbound.Header
    /\ Duplicated =>
         IF DOMAIN inbound.Header \cap HopHeaderNames # {}
         THEN /\ req2.Header # req.Header
              /\ DOMAIN headers = {req.Header, req2.Header}
              /\ headers[req2.Header] =
                     [k \in DOMAIN inbound.Header \ HopHeaderNames |-> inbound.Header[k]]
         ELSE /\ req2.Header = req.Header
              /\ DOMAIN headers = {req.Header}

\* C15: after duplication the request bound for the target and the clone share
\* no mutable state: neither a body reader nor a header set is reachable from
\* both (the clone's URL is a value of its own).
C15_NoSharedRequestState ==
    Duplicated =>
        /\ req2.Header # req.Header
        /\ req2.Body # req.Body

\* a without one trailing slash, b without one leading slash
TrimSuffixSlash(a) == IF HasSuffixSlash(a) THEN SubSeq(a, 1, Len(a) - 1) ELSE a
TrimPrefixSlash(b) == IF HasPrefixSlash(b) THEN SubSeq(b, 2, Len(b)) ELSE b

\* req.URL.Path has been rewritten
PathRewritten == prPc \in {"rewriteQuery", "roundTrip"}

\* the slash that joins a and b in r stands between two characters, if any, that
\* are not slashes
OneSlashAtJunction(a, r) ==
    LET j == Len(TrimSuffixSlash(a)) + 1
    IN  /\ j <= Len(r)
        /\ r[j] = "/"
        /\ j > 1 => r[j - 1] # "/"
        /\ j < Len(r) => r[j + 1] # "/"

\* C16: for all a and b, singleJoiningSlash(a, b) is a and b without its leading
\* slash when a ends and b starts with "/", a, "/" and b when neither does, and a
\* and b otherwise; so "/a/" and "/a" joined with "/b" both give "/a/b". The
\* junction carries exactly one slash whenever a without one trailing slash does
\* not end with "/" and b without one leading slash does not start with "/".
C16_JoinBySlashCases ==
    PathRewritten =>
        LET a == hosts.Target.Path
            b == inbound.Path
            r == req.URL.Path
        IN  /\ (HasSuffixSlash(a) /\ HasPrefixSlash(b)) => r = a \o SubSeq(b, 2, Len(b))
            /\ (~HasSuffixSlash(a) /\ ~HasPrefixSlash(b)) => r = a \o <<"/">> \o b
            /\ (HasSuffixSlash(a) # HasPrefixSlash(b)) => r = a \o b
            /\ (a \in {<<"/", "a", "/">>, <<"/", "a">>} /\ b = <<"/", "b">>) =>
                  r = <<"/", "a", "/", "b">>
            /\ r = TrimSuffixSlash(a) \o <<"/">> \o TrimPrefixSlash(b)
            /\ (~HasSuffixSlash(TrimSuffixSlash(a)) /\ ~HasPrefixSlash(TrimPrefixSlash(b))) =>
                  OneSlashAtJunction(a, r)

C16_Witness ==
    /\ PathRewritten
    /\ hosts.Target.Path = <<"/", "a", "/">>
    /\ inbound.Path = <<"/", "b">>
    /\ req.URL.Path = <<"/", "a", "/", "b">>

\* C16 as stated: the junction of a and b always carries exactly one slash.
C16_JunctionAlwaysOneSlash ==
    PathRewritten => OneSlashAtJunction(hosts.Target.Path, req.URL.Path)

\* teeDirector has returned
Directed == prPc = "roundTrip"

\* C17: after teeDirector the query of the request bound for the target is the
\* Target's query and the inbound query, joined by "&" when neither is empty:
\* "x" and "y" give "x&y", "" and "y" give "y", "x" and "" give "x"; it starts
\* (ends) with "&" only if one of the two did.
C17_QueryIsMerged ==
    Directed =>
        LET t == hosts.Target.RawQuery
            q == inbound.RawQuery
            r == req.URL.RawQuery
        IN  /\ t = <<>> => r = q
            /\ q = <<>> => r = t
            /\ (t # <<>> /\ q # <<>>) =>
                  /\ Len(r) = Len(t) + 1 + Len(q)
                  /\ SubSeq(r, 1, Len(t)) = t
                  /\ r[Len(t) + 1] = "&"
                  /\ SubSeq(r, Len(t) + 2, Len(r)) = q
            /\ (r # <<>> /\ r[1] = "&") => \E s \in {t, q} : s # <<>> /\ s[1] = "&"
            /\ (r # <<>> /\ r[Len(r)] = "&") => \E s \in {t, q} : s # <<>> /\ s[Len(s)] = "&"

C17_Witness ==
    /\ Directed
    /\ hosts.Target.RawQuery = <<"x">>
    /\ inbound.RawQuery = <<"y">>
    /\ req.URL.RawQuery = <<"x", "&", "y">>

UnderlyingCompleted == ttWorker \in {"send", "done"}

\* RoundTrip has returned nil and the timeout error, after the timer fired and
\* CancelRequest was called
ReturnedTimeout ==
    /\ ttPc = "returned"
    /\ ttResult = [resp |-> Nil, err |-> netTimeoutError]
    /\ Timeout(ttResult.err)
    /\ ttTimer = "fired"
    /\ ttCancelled

\* C11: if the transport's round trip never completes, RoundTrip returns once
\* the timer has fired, with an error whose Timeout() is true and after
\* signalling the cancellation; it returns without waiting for the cancellation
\* to take effect, the round trip still being under way.
C11_TimerUnblocksCaller ==
    /\ ([]~UnderlyingCompleted) => <>ReturnedTimeout
    /\ [](ttPc = "returned" /\ ~UnderlyingCompleted => ReturnedTimeout)

C11_Witness ==
    /\ ReturnedTimeout
    /\ ttWorker = "roundTrip"

\* C12: RoundTrip returns one result, once: either the pair the transport's
\* round trip returned, unchanged, or nil and the timeout error; the timeout
\* error only after the timer fired, and never with the transport's response.
C12_OneResult ==
    /\ [](IF ttPc = "returned"
          THEN \/ /\ ttResult = ttUnderlying
                  /\ ttWorker = "done"
                  /\ ttResult \in UnderlyingResults
               \/ /\ ttResult = [resp |-> Nil, err |-> netTimeoutError]
                  /\ ttTimer = "fired"
          ELSE ttResult = NoResult)
    /\ [][ttPc = "returned" => ttPc' = "returned" /\ ttResult' = ttResult]_vars

C12_Witness ==
    /\ ttPc = "returned"
    /\ ttTimer = "fired"
    /\ ttResult = [resp |-> Nil, err |-> "i/o timeout"]

\* C20: the goroutine never blocks on sending its result: resp has room for it
\* whether or not RoundTrip still receives, so once the transport's round trip
\* has returned the result is sent and the goroutine ends, also after the timer
\* won and RoundTrip returned.
C20_WorkerNeverBlocks ==
    /\ [](ttWorker = "send" => ttResp = <<>>)
    /\ (ttWorker = "send") ~> (ttWorker = "done")

C20_Witness ==
    /\ ReturnedTimeout
    /\ ttWorker = "done"
    /\ Len(ttResp) = 1

====
